---- MODULE Spec2Model ----
(***************************************************************************)
(* Batch video conversion scripts (hagen-gloetter/video-conversion-ffmpeg). *)
(* Seven script variants share one design: discover the video files of a    *)
(* directory, run one ffmpeg child process per file (in a thread pool, a    *)
(* process pool or a plain loop), and move the original of a successful     *)
(* conversion into the "done" directory.                                    *)
(*                                                                          *)
(* One run of one variant is one behaviour.  Init draws the variant and the *)
(* environment (is ffmpeg launchable, is "done" writable, the number of     *)
(* processors, the number of video files in the directory).                 *)
(*                                                                          *)
(* Granularity.  The pool's hand-over "a thread that finished a work item   *)
(* takes the next one from the work queue" is one step (ReturnOutcome), and *)
(* the dict comprehension that submits every file is one step               *)
(* (ExecutorSubmitAll).  Inside make_720p every blocking call (Popen,       *)
(* readline, poll, the wait for the child) is a step of its own.            *)
(*                                                                          *)
(* Specifications.  Spec is one run of any variant, with engines whose      *)
(* output fits into the pipe they write to.  RerunSpec adds a second run of *)
(* the same script over the directory the first run left.  ProcSpec is the  *)
(* process variant with the engine's writes to its stderr pipe.  CancelSpec *)
(* is the evo variant with an engine that hangs and a signal that reaches   *)
(* the run.  DiscSpec applies each script's listing expression to a         *)
(* directory with hidden files, directories and upper-case suffixes.        *)
(* BaseSpec and EvoSpec are the base and the evo variant over a directory   *)
(* with more files than pool threads can hold twice.  DrawSpec is the       *)
(* process variant with a pass of draw_progress_bars that the pool threads  *)
(* interleave with.  H265Spec is the h265 variant over files whose names    *)
(* may share a stem.                                                        *)
(***************************************************************************)
EXTENDS Naturals, Integers, Sequences, FiniteSets

\* ---------------------------------------------------------------- bounds
MaxFiles == 2        \* video files in the input directory: 0..MaxFiles
MaxCpu   == 2        \* multiprocessing.cpu_count(): 1..MaxCpu
MaxEntries == 2      \* discovery: entries of the input root beside 720p and done
PipeCapacity == 1    \* chunks of output an unread pipe buffers
MaxPoolFiles == 3    \* video files in the runs of one variant (BaseSpec, EvoSpec)

Files   == 1..MaxPoolFiles
Workers == 1..MaxCpu

HgVariants      == {"base", "evo", "evo2", "process"}   \* hg_convert_movie_to_720p*.py
SeqVariants     == {"nvidia", "h265"}                   \* ffmpeg_convert_to_720p_nvidia*.py
Variants        == HgVariants \cup {"cpu2"} \cup SeqVariants
ThreadPoolVariants == HgVariants

VARIABLES
  variant,          \* the script that runs
  ffmpegOk,         \* environment: the ffmpeg binary can be found and launched
  done_writable,    \* environment: a rename/move into "done" can complete
  cpu_count,        \* multiprocessing.cpu_count()
  cwd_files,        \* video files in the input directory (original location)
  done_files,       \* files in the "done" directory
  mainpc,           \* position of main(): the orchestrating thread
  exit_code,        \* exit status of the run (-1 while it runs)
  files_to_process, \* the discovered jobs, in discovery order
  futures,          \* main's dict of futures not yet collected (by job)
  work_queue,       \* the pool's queue of work items not yet taken
  worker,           \* per pool thread/process: the job it executes and where
  proc,             \* per job: its ffmpeg child process
  outcome,          \* per job: what its task returned (or raised)
  progress_data,    \* the shared progress map (progress_bars in evo)
  processed_count, success_count, fail_count,   \* main's tallies
  dispatched,       \* per job: times a pool worker was handed the job
  collected,        \* per job: times main consumed the job's outcome
  cur,              \* sequential variants: the video of the running iteration
  pool_size,        \* threads/processes the pool of this run has created
  active_threads,   \* process: the bars the last draw_progress_bars printed
  stderr_pipe,      \* process: per job, chunks waiting in the child's stderr pipe
  rerun,            \* "first", or how the directory was left when the script was run again
  signal,           \* "none", or the signal that reached the run and what it found
  platform,         \* "posix" or "nt": decides the case rule of Path.glob
  dir_entries,      \* discovery: the entries directly under the input root
  video_files,      \* discovery: the entries the listing expression returned
  progress_lock,    \* 0, or the pool thread that holds progress_lock
  draw_used,        \* process: the size of progress_data when the running pass of
                    \* draw_progress_bars began to iterate it (-1: no pass runs)
  names,            \* per video file: its name as stem and suffix
  output_files      \* the files in the output directory: path -> the video whose
                    \* engine wrote it last

vars == <<variant, ffmpegOk, done_writable, cpu_count, cwd_files, done_files,
          mainpc, exit_code, files_to_process, futures, work_queue, worker,
          proc, outcome, progress_data, processed_count, success_count,
          fail_count, dispatched, collected, cur, pool_size, active_threads,
          stderr_pipe, rerun, signal, platform, dir_entries, video_files,
          progress_lock, draw_used, names, output_files>>

envVars   == <<variant, ffmpegOk, done_writable, cpu_count, names>>
fsVars    == <<cwd_files, done_files>>
tallyVars == <<processed_count, success_count, fail_count>>
discVars  == <<platform, dir_entries, video_files>>
runVars   == <<rerun, signal>>
obsVars   == <<active_threads, stderr_pipe>>
lockVars  == <<progress_lock, draw_used>>
auxVars   == <<pool_size, obsVars, runVars, discVars, lockVars, output_files>>

\* ---------------------------------------------------------------- helpers
Min(a, b) == IF a <= b THEN a ELSE b
Max(a, b) == IF a >= b THEN a ELSE b

Range(s) == {s[i] : i \in 1..Len(s)}

\* Outcomes.  make_720p returns a tuple whose first field is the success flag
\* and whose last field (failures only) is str(e); "raised" marks a task whose
\* exception escaped the task function.
NoOutcome      == [state |-> "pending", reason |-> "none"]
Success        == [state |-> "Success", reason |-> "none"]
Failure(why)   == [state |-> "Failure", reason |-> why]
Raised(why)    == [state |-> "raised",  reason |-> why]
Terminal(j)    == outcome[j].state # "pending"

Idle == [job |-> 0, pc |-> "idle"]

total_files == Len(files_to_process)

InFlight  == {w \in Workers : worker[w].job # 0}
Remaining == {j \in Range(files_to_process) : ~Terminal(j)}

MainEnded == mainpc \in {"done", "exit1", "crashed", "killed"}


\* Mutant of listdir: the listing descends into "done" as well.
listdir_Walk(S) ==
  LET T == S \cup done_files
  IN  [i \in 1..Cardinality(T) |->
         CHOOSE x \in T : Cardinality({y \in T : y < x}) = i - 1]

\* os.listdir order: deterministic for a given directory state.
RECURSIVE listdir(_)
listdir(S) ==
  IF S = {} THEN <<>>
  ELSE LET m == CHOOSE x \in S : \A y \in S : x <= y
       IN  <<m>> \o listdir(S \ {m})

\* Mutant of os_rename: the file is copied into "done" and never removed.
os_rename_CopyOnly(j) ==
  /\ cwd_files'  = cwd_files
  /\ done_files' = done_files \cup {j}

\* os.rename(input_file, os.path.join("done", basename)): the file leaves the
\* original location and appears in "done" in one step.
os_rename(j) ==
  /\ cwd_files'  = cwd_files \ {j}
  /\ done_files' = done_files \cup {j}

\* Launching a child process succeeds when the ffmpeg binary can be found and
\* raises FileNotFoundError when it cannot.
LaunchResults == {ffmpegOk}

\* No signal has reached the run.
NoSignal == [sig |-> "none", group |-> FALSE, hung |-> {}]

\* dict item assignment d[k] = v
Put(d, k, v) == [x \in (DOMAIN d) \cup {k} |-> IF x = k THEN v ELSE d[x]]

\* "with progress_lock:" around one statement: the thread enters when the lock
\* is free and has left the block when the statement is done.
WithLock == progress_lock = 0 /\ UNCHANGED progress_lock

\* "with progress_lock:" is entered by pool thread w (blocks while it is held).
Acquire(w) == progress_lock = 0 /\ progress_lock' = w

\* Mutant of Release: the thread leaves the block and keeps the lock.
Release_Keep(w) == progress_lock' = progress_lock

\* The "with progress_lock:" block of pool thread w is left.
Release(w) == progress_lock' = 0

\* ---------------------------------------------------------------- Init
\* The memory of a freshly started script.
InitMemory ==
  /\ mainpc = "start"
  /\ exit_code = -1
  /\ files_to_process = <<>>
  /\ futures = {}
  /\ work_queue = <<>>
  /\ worker = [w \in Workers |-> Idle]
  /\ proc = [j \in Files |-> "none"]
  /\ outcome = [j \in Files |-> NoOutcome]
  /\ progress_data = <<>>
  /\ processed_count = 0
  /\ success_count = 0
  /\ fail_count = 0
  /\ dispatched = [j \in Files |-> 0]
  /\ collected = [j \in Files |-> 0]
  /\ cur = 0
  /\ pool_size = 0
  /\ active_threads = <<>>
  /\ stderr_pipe = [j \in Files |-> 0]
  /\ rerun = "first"
  /\ signal = NoSignal
  /\ progress_lock = 0
  /\ draw_used = -1

\* File names: a stem and a recognized suffix.
Stems == Files
Names == [stem : Stems, suffix : {".mp4", ".mov"}]

\* Every video file has a stem of its own.
DistinctStems == [j \in Files |-> [stem |-> j, suffix |-> ".mp4"]]

\* A run of a script of vs over a directory that holds 0..maxn video files
\* (regular files, not hidden, with a recognized extension) and an empty "done"
\* and an empty output directory.
InitRun(vs, maxn) ==
  /\ variant \in vs
  /\ ffmpegOk \in BOOLEAN
  /\ done_writable \in BOOLEAN
  /\ cpu_count \in 1..MaxCpu
  /\ \E n \in 0..maxn : cwd_files = 1..n
  /\ done_files = {}
  /\ output_files = <<>>
  /\ InitMemory
  /\ platform = "posix"
  /\ dir_entries = {}
  /\ video_files = {}

Init ==
  /\ InitRun(Variants, MaxFiles)
  /\ names = DistinctStems

\* ---------------------------------------------------------------- the pool
\* Mutant of TakeNext: the work item is read but stays in the queue.
TakeNext_NoPop(w) ==
  /\ worker' = [worker EXCEPT ![w] = [job |-> Head(work_queue), pc |-> "start"]]
  /\ work_queue' = work_queue
  /\ dispatched' = [dispatched EXCEPT ![Head(work_queue)] = @ + 1]

\* Mutant of TakeNext: the thread takes the item submitted last.
TakeNext_Last(w) ==
  LET n == Len(work_queue)
  IN  /\ worker' = [worker EXCEPT ![w] = [job |-> work_queue[n], pc |-> "start"]]
      /\ work_queue' = SubSeq(work_queue, 1, n - 1)
      /\ dispatched' = [dispatched EXCEPT ![work_queue[n]] = @ + 1]

\* A pool thread takes the next work item from the queue (queue.get()).
TakeNext(w) ==
  /\ worker' = [worker EXCEPT ![w] = [job |-> Head(work_queue), pc |-> "start"]]
  /\ work_queue' = Tail(work_queue)
  /\ dispatched' = [dispatched EXCEPT ![Head(work_queue)] = @ + 1]

\* Mutant of ReturnOutcome: a static partition, the thread that finished its
\* item takes no further item.
ReturnOutcome_NoRefill(w, o) ==
  /\ outcome' = [outcome EXCEPT ![worker[w].job] = o]
  /\ worker' = [worker EXCEPT ![w] = Idle]
  /\ UNCHANGED <<work_queue, dispatched>>

\* The task of pool thread w ends with outcome o (the future's result is set);
\* the thread goes back to the work queue and takes the next item if there is one.
ReturnOutcome(w, o) ==
  /\ outcome' = [outcome EXCEPT ![worker[w].job] = o]
  /\ IF work_queue # <<>>
       THEN TakeNext(w)
       ELSE /\ worker' = [worker EXCEPT ![w] = Idle]
            /\ UNCHANGED <<work_queue, dispatched>>

\* ThreadPoolExecutor(max_workers=k) / Pool(processes=k), then one submit per
\* file in discovery order: the first min(k, n) items start on a worker each,
\* the rest wait in the work queue.
ExecutorSubmitAll(k) ==
  LET n     == total_files
      first == Min(k, n)
  IN  /\ futures' = Range(files_to_process)
      /\ worker' = [w \in Workers |->
                      IF w <= first THEN [job |-> files_to_process[w], pc |-> "start"]
                                    ELSE Idle]
      /\ work_queue' = SubSeq(files_to_process, first + 1, n)
      /\ dispatched' = [j \in Files |->
                          IF \E i \in 1..first : files_to_process[i] = j
                            THEN dispatched[j] + 1 ELSE dispatched[j]]

\* The threads a ThreadPoolExecutor(max_workers=k) has started after n submits:
\* submit() starts one thread as long as fewer than k exist.
ThreadPoolExecutor_threads(k, n) == Min(k, n)

\* The processes Pool(processes=k) starts when it is constructed.
Pool_processes(k) == k

\* ---------------------------------------------------------------- the engine
\* The child of job j has a write pending on its full stderr pipe: it sleeps in
\* write() until somebody reads from the pipe.
Blocked(j) == stderr_pipe[j] > PipeCapacity

\* process: the ffmpeg child of job j writes a chunk of its log (stream
\* information, the periodic statistics line) to stderr, which Popen connected
\* to a pipe; make_720p holds the read end and never reads from it.  The chunk
\* goes into the pipe's buffer, or, the buffer being full, the write blocks.
EngineWrite(j) ==
  /\ variant = "process"
  /\ proc[j] = "running"
  /\ ~Blocked(j)
  /\ stderr_pipe' = [stderr_pipe EXCEPT ![j] = @ + 1]
  /\ UNCHANGED <<envVars, pool_size, active_threads, runVars, discVars, lockVars,
                 output_files, fsVars,
                 mainpc, exit_code, files_to_process, futures, work_queue,
                 worker, proc, outcome, progress_data, tallyVars, dispatched,
                 collected, cur>>

\* The ffmpeg child process of job j ends, with exit status 0 or nonzero.
EngineExit(j) ==
  /\ proc[j] = "running"
  /\ ~Blocked(j)
  /\ \E st \in {"exit0", "exit1"} : proc' = [proc EXCEPT ![j] = st]
  /\ UNCHANGED <<envVars, auxVars, fsVars, mainpc, exit_code, files_to_process, futures,
                 work_queue, worker, outcome, progress_data, tallyVars,
                 dispatched, collected, cur>>

Exited(j) == proc[j] \in {"exit0", "exit1"}

\* The ffmpeg child of job j hangs: it stays alive, writes nothing more and
\* never exits by itself.
EngineHang(j) ==
  /\ proc[j] = "running"
  /\ proc' = [proc EXCEPT ![j] = "hung"]
  /\ UNCHANGED <<envVars, auxVars, fsVars, mainpc, exit_code, files_to_process,
                 futures, work_queue, worker, outcome, progress_data, tallyVars,
                 dispatched, collected, cur>>

\* A signal that is delivered to the children too ends those that are alive.
Signalled(p) == IF p \in {"running", "hung"} THEN "exit1" ELSE p

\* The lines an engine may write on its progress pipe: a progress line with a
\* numeric out_time_ms (microseconds), "out_time_ms=N/A" (not numeric), a line
\* "out_time_ms" without a value, and any other line.
OutTimes == {5000000, 20000000}
Lines == {[kind |-> "other", v |-> 0], [kind |-> "na", v |-> 0],
          [kind |-> "novalue", v |-> 0]}
         \cup {[kind |-> "num", v |-> t] : t \in OutTimes}

\* ---------------------------------------------------------------- main (hg_*)
\* Mutant of Preflight: the result of the check is ignored.
Preflight_NoCheck ==
  /\ variant \in HgVariants
  /\ mainpc = "start"
  /\ mainpc' = "discover"
  /\ UNCHANGED <<envVars, auxVars, fsVars, exit_code, files_to_process, futures, work_queue,
                 worker, proc, outcome, progress_data, tallyVars, dispatched,
                 collected, cur>>

\* main(): the ffmpeg preflight check; exit(1) when ffmpeg cannot be run.
\* (The same lines open main() of all four hg_convert_movie_to_720p* scripts.)
Preflight ==
  /\ variant \in HgVariants
  /\ mainpc = "start"
  /\ IF ffmpegOk
       THEN mainpc' = "discover" /\ UNCHANGED exit_code
       ELSE mainpc' = "exit1" /\ exit_code' = 1
  /\ UNCHANGED <<envVars, auxVars, fsVars, files_to_process, futures, work_queue, worker,
                 proc, outcome, progress_data, tallyVars, dispatched,
                 collected, cur>>

\* main(): the directory listing; "no video files" returns (exit code 0).
Discover ==
  /\ variant \in HgVariants
  /\ mainpc = "discover"
  /\ files_to_process' = listdir(cwd_files)
  /\ IF cwd_files = {}
       THEN mainpc' = "done" /\ exit_code' = 0
       ELSE mainpc' = "submit" /\ UNCHANGED exit_code
  /\ UNCHANGED <<envVars, auxVars, fsVars, futures, work_queue, worker, proc, outcome, progress_data, tallyVars, dispatched, collected, cur>>

\* num_workers of each pool variant.
num_workers ==
  IF variant = "process" THEN Min(cpu_count, total_files) ELSE cpu_count

\* The key under which job j (position j-1 of the enumeration) writes into the
\* progress map: evo passes i % num_workers, evo2 and process pass i.
thread_id(j) ==
  IF variant = "evo" THEN (j - 1) % num_workers ELSE j - 1

\* main(): the with-block opens the executor and submits every file.
Submit ==
  /\ variant \in HgVariants
  /\ mainpc = "submit"
  /\ ExecutorSubmitAll(num_workers)
  /\ pool_size' = ThreadPoolExecutor_threads(num_workers, total_files)
  /\ mainpc' = "collect"
  /\ UNCHANGED <<envVars, obsVars, runVars, discVars, lockVars, output_files, fsVars, exit_code, files_to_process, proc, outcome, progress_data, tallyVars, collected, cur>>

\* The futures of main's dict whose task has ended.
DoneFutures == {j \in futures : Terminal(j)}

\* Mutant of AllCollected: the loop ends after the first turn that collected.
AllCollected_FirstTurn(F) == TRUE

\* The collection loops end when main's dict of futures is empty ("if not
\* futures: break", "while futures", the end of as_completed).
AllCollected(F) == F = {}

\* ---------------------------------------------------------------- base
\* Mutant of finish_make_720p: the return code is not looked at.
finish_make_720p_NoCheck(w) ==
  IF done_writable
    THEN os_rename(worker[w].job) /\ ReturnOutcome(w, Success)
    ELSE UNCHANGED fsVars /\ ReturnOutcome(w, Failure("rename"))

\* The tail of make_720p once the child has ended: a nonzero status raises
\* CalledProcessError (Failure), status 0 renames the original into done and
\* returns True; a failing rename is caught by "except Exception" (Failure).
finish_make_720p(w) ==
  LET j == worker[w].job
  IN  IF proc[j] = "exit0"
        THEN IF done_writable
               THEN os_rename(j) /\ ReturnOutcome(w, Success)
               ELSE UNCHANGED fsVars /\ ReturnOutcome(w, Failure("rename"))
        ELSE UNCHANGED fsVars /\ ReturnOutcome(w, Failure("engine"))

\* make_720p: subprocess.run starts ffmpeg; a launch error is caught by
\* "except Exception" and the job returns False.
Base_make_720p_run(w) ==
  /\ variant = "base"
  /\ worker[w].pc = "start"
  /\ \E ok \in LaunchResults :
       IF ok
         THEN /\ proc' = [proc EXCEPT ![worker[w].job] = "running"]
              /\ worker' = [worker EXCEPT ![w].pc = "wait"]
              /\ UNCHANGED <<outcome, work_queue, dispatched>>
         ELSE /\ ReturnOutcome(w, Failure("spawn"))
              /\ UNCHANGED proc
  /\ UNCHANGED <<envVars, auxVars, fsVars, mainpc, exit_code, files_to_process, futures,
                 progress_data, tallyVars, collected, cur>>

\* make_720p: subprocess.run(check=True) returns or raises once ffmpeg ended.
Base_make_720p_done(w) ==
  /\ variant = "base"
  /\ worker[w].pc = "wait"
  /\ Exited(worker[w].job)
  /\ finish_make_720p(w)
  /\ UNCHANGED <<envVars, auxVars, mainpc, exit_code, files_to_process, futures, proc,
                 progress_data, tallyVars, collected, cur>>

\* main(): as_completed yields each finished future once; future.result() is
\* consumed; the with-block ends after the last one.
Base_main_as_completed ==
  /\ variant = "base"
  /\ mainpc = "collect"
  /\ \E j \in DoneFutures :
       /\ futures' = futures \ {j}
       /\ collected' = [collected EXCEPT ![j] = @ + 1]
       /\ IF AllCollected(futures \ {j})
            THEN mainpc' = "done" /\ exit_code' = 0
            ELSE UNCHANGED <<mainpc, exit_code>>
  /\ UNCHANGED <<envVars, auxVars, fsVars, files_to_process, work_queue, worker, proc,
                 outcome, progress_data, tallyVars, dispatched, cur>>

\* ---------------------------------------------------------------- evo
\* float(line.split('=')[1]) succeeds on a numeric value only: "N/A" raises
\* ValueError, a line without '=' raises IndexError.
ParsesAsFloat(line) == line.kind = "num"

\* Progress fractions are kept in thousandths.
\* evo: float(...) / 1e7, stored as it is (v / 1e7 * 1000 = v / 1e4).
Evo_progress(v) == v \div 10000

\* make_720p: Popen starts ffmpeg with its progress on a pipe.
Evo_make_720p_Popen(w) ==
  /\ variant = "evo"
  /\ worker[w].pc = "start"
  /\ \E ok \in LaunchResults :
       IF ok
         THEN /\ proc' = [proc EXCEPT ![worker[w].job] = "running"]
              /\ worker' = [worker EXCEPT ![w].pc = "read"]
              /\ UNCHANGED <<outcome, work_queue, dispatched>>
         ELSE /\ ReturnOutcome(w, Failure("spawn"))
              /\ UNCHANGED proc
  /\ UNCHANGED <<envVars, auxVars, fsVars, mainpc, exit_code, files_to_process, futures,
                 progress_data, tallyVars, collected, cur>>

\* make_720p: one turn of the read loop that gets a line.  A line with
\* 'out_time_ms' is parsed and stored under the lock; the parse error of a
\* malformed one leaves the loop through "except Exception": the task returns a
\* failure tuple while the child is still running.
Evo_make_720p_readline(w) ==
  LET j == worker[w].job
  IN  /\ variant = "evo"
      /\ worker[w].pc = "read"
      /\ proc[j] # "hung"
      /\ \E line \in Lines :
           /\ IF line.kind = "other"
                THEN UNCHANGED <<progress_data, worker, outcome, work_queue, dispatched>>
                ELSE /\ progress_lock = 0
                     /\ IF ParsesAsFloat(line)
                          THEN /\ progress_data' =
                                    Put(progress_data, thread_id(j), Evo_progress(line.v))
                               /\ UNCHANGED <<worker, outcome, work_queue, dispatched>>
                          ELSE /\ ReturnOutcome(w, Failure("parse"))
                               /\ UNCHANGED progress_data
      /\ UNCHANGED <<envVars, auxVars, fsVars, mainpc, exit_code, files_to_process, futures,
                     proc, tallyVars, collected, cur>>

\* make_720p: readline returns '' and poll() is not None: the loop ends and the
\* return code decides.
Evo_make_720p_eof(w) ==
  /\ variant = "evo"
  /\ worker[w].pc = "read"
  /\ Exited(worker[w].job)
  /\ finish_make_720p(w)
  /\ UNCHANGED <<envVars, auxVars, mainpc, exit_code, files_to_process, futures, proc,
                 progress_data, tallyVars, collected, cur>>

\* Mutant of CountFailure: only a raised exception counts as a failure.
CountFailure_OnlyRaised(D) == Cardinality({j \in D : outcome[j].state = "raised"})

\* The tallies after main handled the outcomes of the futures in D.
CountSuccess(D) == Cardinality({j \in D : outcome[j].state = "Success"})
CountFailure(D) == Cardinality({j \in D : outcome[j].state # "Success"})

\* main(): one turn of the collection loop: wait(timeout=1), draw the bars,
\* count every finished future and delete it; leave the loop when the dict is
\* empty, print the summary and return.
Evo_main_loop ==
  /\ variant = "evo"
  /\ mainpc = "collect"
  /\ DoneFutures # {}
  /\ LET D == DoneFutures
     IN  /\ processed_count' = processed_count + Cardinality(D)
         /\ success_count' = success_count + CountSuccess(D)
         /\ fail_count' = fail_count + CountFailure(D)
         /\ collected' = [j \in Files |-> IF j \in D THEN collected[j] + 1 ELSE collected[j]]
         /\ futures' = futures \ D
         /\ IF AllCollected(futures \ D)
              THEN mainpc' = "done" /\ exit_code' = 0
              ELSE UNCHANGED <<mainpc, exit_code>>
  /\ UNCHANGED <<envVars, auxVars, fsVars, files_to_process, work_queue, worker, proc,
                 outcome, progress_data, dispatched, cur>>

\* ---------------------------------------------------------------- evo2
\* get_media_info: the duration ffprobe reports for a file, in seconds; 0 when
\* the probe fails (here: for the first file).
probe_duration(j) == IF j = 1 THEN 0 ELSE 10

\* evo2: current_time = float(...)/1000; progress = current_time / duration
\* (0 without a duration), clamped into [0, 1].
Evo2_current_time(v) == v \div 1000
Evo2_progress(v, duration) ==
  IF duration > 0
    THEN Min(1000, Max(0, (Evo2_current_time(v) * 1000) \div duration))
    ELSE 0

Evo2_make_720p_Popen(w) ==
  /\ variant = "evo2"
  /\ worker[w].pc = "start"
  /\ \E ok \in LaunchResults :
       IF ok
         THEN /\ proc' = [proc EXCEPT ![worker[w].job] = "running"]
              /\ worker' = [worker EXCEPT ![w].pc = "read"]
              /\ UNCHANGED <<outcome, work_queue, dispatched>>
         ELSE /\ ReturnOutcome(w, Failure("spawn"))
              /\ UNCHANGED proc
  /\ UNCHANGED <<envVars, auxVars, fsVars, mainpc, exit_code, files_to_process, futures,
                 progress_data, tallyVars, collected, cur>>

Evo2_make_720p_readline(w) ==
  LET j == worker[w].job
  IN  /\ variant = "evo2"
      /\ worker[w].pc = "read"
      /\ proc[j] # "hung"
      /\ \E line \in Lines :
           /\ IF line.kind = "other"
                THEN UNCHANGED <<progress_data, worker, outcome, work_queue, dispatched>>
                ELSE IF ParsesAsFloat(line)
                  THEN /\ progress_lock = 0
                       /\ progress_data' =
                            Put(progress_data, thread_id(j),
                                [progress |-> Evo2_progress(line.v, probe_duration(j)),
                                 filename |-> j,
                                 current  |-> Evo2_current_time(line.v),
                                 total    |-> probe_duration(j)])
                       /\ UNCHANGED <<worker, outcome, work_queue, dispatched>>
                  ELSE /\ ReturnOutcome(w, Failure("parse"))
                       /\ UNCHANGED progress_data
      /\ UNCHANGED <<envVars, auxVars, fsVars, mainpc, exit_code, files_to_process, futures,
                     proc, tallyVars, collected, cur>>

Evo2_make_720p_eof(w) ==
  /\ variant = "evo2"
  /\ worker[w].pc = "read"
  /\ Exited(worker[w].job)
  /\ finish_make_720p(w)
  /\ UNCHANGED <<envVars, auxVars, mainpc, exit_code, files_to_process, futures, proc,
                 progress_data, tallyVars, collected, cur>>

\* main(): one turn of "while futures": the first finished future is counted
\* and deleted, then the finally-block reads thread_id, a name main() never
\* binds: NameError leaves the loop and the with-block.
Evo2_main_loop ==
  /\ variant = "evo2"
  /\ mainpc = "collect"
  /\ \E j \in DoneFutures :
       /\ processed_count' = processed_count + 1
       /\ success_count' = success_count + CountSuccess({j})
       /\ fail_count' = fail_count + CountFailure({j})
       /\ collected' = [collected EXCEPT ![j] = @ + 1]
       /\ futures' = futures \ {j}
  /\ mainpc' = "raising"
  /\ UNCHANGED <<envVars, auxVars, fsVars, exit_code, files_to_process, work_queue, worker,
                 proc, outcome, progress_data, dispatched, cur>>

\* main(): the executor's __exit__ waits until the pool has run every queued
\* task; then the NameError ends the script with a traceback (exit code 1).
Evo2_main_exit ==
  /\ variant = "evo2"
  /\ mainpc = "raising"
  /\ InFlight = {}
  /\ work_queue = <<>>
  /\ mainpc' = "crashed"
  /\ exit_code' = 1
  /\ UNCHANGED <<envVars, auxVars, fsVars, files_to_process, futures, work_queue, worker,
                 proc, outcome, progress_data, tallyVars, dispatched,
                 collected, cur>>

\* ---------------------------------------------------------------- process
\* An entry of progress_data is a dict; a field that was never set is 0
\* (filename), -1 (progress) or "" (status).
EmptyEntry == [filename |-> 0, progress |-> -1, status |-> ""]

\* defaultdict(dict): reading a missing key yields (and inserts) an empty dict.
Entry(k) == IF k \in DOMAIN progress_data THEN progress_data[k] ELSE EmptyEntry

\* Seconds since the job started, as the poll loop may observe them.
ElapsedSeconds == {0, 5, 12}

\* process: min(0.99, elapsed / 10)
Proc_progress(elapsed) == Min(990, (elapsed * 1000) \div 10)

Proc_make_720p_Popen(w) ==
  LET j == worker[w].job
  IN  /\ variant = "process"
      /\ worker[w].pc = "start"
      /\ \E ok \in LaunchResults :
           IF ok
             THEN /\ proc' = [proc EXCEPT ![j] = "running"]
                  /\ worker' = [worker EXCEPT ![w].pc = "poll"]
                  /\ UNCHANGED <<outcome, work_queue, dispatched, progress_data>>
             ELSE /\ progress_lock = 0
                  /\ progress_data' =
                       Put(progress_data, thread_id(j),
                           [Entry(thread_id(j)) EXCEPT !.status = "error"])
                  /\ ReturnOutcome(w, Failure("spawn"))
                  /\ UNCHANGED proc
      /\ UNCHANGED <<envVars, auxVars, fsVars, mainpc, exit_code, files_to_process, futures,
                     tallyVars, collected, cur>>

\* make_720p: one turn of "while process.poll() is None": the entry is replaced
\* under the lock by a time-based placeholder, then the thread sleeps.
Proc_make_720p_poll(w) ==
  LET j == worker[w].job
      k == thread_id(j)
  IN  /\ variant = "process"
      /\ worker[w].pc = "poll"
      /\ proc[j] = "running"
      /\ WithLock
      /\ \E e \in ElapsedSeconds :
           /\ Proc_progress(e) >= Entry(k).progress
           /\ progress_data' =
                Put(progress_data, k,
                    [filename |-> j, progress |-> Proc_progress(e), status |-> "running"])
      /\ UNCHANGED <<envVars, pool_size, obsVars, runVars, discVars, draw_used,
                     output_files, fsVars, mainpc, exit_code, files_to_process,
                     futures, work_queue, worker, proc, outcome, tallyVars,
                     dispatched, collected, cur>>

\* make_720p: after the loop the lock is taken; first statement under the
\* lock: progress = 1.0
Proc_make_720p_final_progress(w) ==
  LET j == worker[w].job
      k == thread_id(j)
  IN  /\ variant = "process"
      /\ worker[w].pc = "poll"
      /\ Exited(j)
      /\ Acquire(w)
      /\ progress_data' = Put(progress_data, k, [Entry(k) EXCEPT !.progress = 1000])
      /\ worker' = [worker EXCEPT ![w].pc = "final"]
      /\ UNCHANGED <<envVars, pool_size, obsVars, runVars, discVars, draw_used,
                     output_files, fsVars, mainpc, exit_code, files_to_process,
                     futures, work_queue, proc, outcome, tallyVars, dispatched,
                     collected, cur>>

\* Mutant of final_status: the status is left as the poll loop wrote it.
final_status_Running(rc) == "running"

\* 'done' if process.returncode == 0 else 'failed'
final_status(rc) == IF rc = "exit0" THEN "done" ELSE "failed"

\* make_720p: second statement under the lock: status = 'done' or 'failed';
\* the lock is released.
Proc_make_720p_final_status(w) ==
  LET j == worker[w].job
      k == thread_id(j)
  IN  /\ variant = "process"
      /\ worker[w].pc = "final"
      /\ progress_data' =
           Put(progress_data, k,
               [Entry(k) EXCEPT !.status = final_status(proc[j])])
      /\ Release(w)
      /\ worker' = [worker EXCEPT ![w].pc = "move"]
      /\ UNCHANGED <<envVars, pool_size, obsVars, runVars, discVars, draw_used,
                     output_files, fsVars, mainpc, exit_code, files_to_process,
                     futures, work_queue, proc, outcome, tallyVars, dispatched,
                     collected, cur>>

\* make_720p: return code 0 renames the original into done and returns the
\* success tuple (a failing rename: status 'error' and a failure tuple); any
\* other return code returns the failure tuple "FFmpeg Error".
Proc_make_720p_return(w) ==
  LET j == worker[w].job
      k == thread_id(j)
  IN  /\ variant = "process"
      /\ worker[w].pc = "move"
      /\ IF proc[j] = "exit0"
           THEN IF done_writable
                  THEN /\ os_rename(j)
                       /\ ReturnOutcome(w, Success)
                       /\ UNCHANGED progress_data
                  ELSE /\ progress_lock = 0
                       /\ progress_data' =
                            Put(progress_data, k, [Entry(k) EXCEPT !.status = "error"])
                       /\ ReturnOutcome(w, Failure("rename"))
                       /\ UNCHANGED fsVars
           ELSE /\ ReturnOutcome(w, Failure("engine"))
                /\ UNCHANGED <<fsVars, progress_data>>
      /\ UNCHANGED <<envVars, auxVars, mainpc, exit_code, files_to_process, futures, proc,
                     tallyVars, collected, cur>>

\* draw_progress_bars: the entries whose status reads 'running', each printed
\* with the progress it holds; progress_lock is not taken.
draw_progress_bars(pd) ==
  [k \in {x \in DOMAIN pd : pd[x].status = "running"} |-> pd[k].progress]

\* main(): one turn of "while futures": wait(timeout) returns the finished
\* futures (none when it timed out), draw, then for every finished future:
\* count it, delete it, mark its entry 'completed'.  The mark is made under
\* progress_lock; a pool thread that holds the lock is between the two
\* statements of the final update of its own, unfinished job, whose entry is
\* not one the turn marks, so the turn's effect is the one it has after the
\* lock was released.
Proc_main_loop ==
  /\ variant = "process"
  /\ mainpc = "collect"
  /\ LET D == DoneFutures
     IN  /\ active_threads' = draw_progress_bars(progress_data)
         /\ processed_count' = processed_count + Cardinality(D)
         /\ collected' = [j \in Files |-> IF j \in D THEN collected[j] + 1 ELSE collected[j]]
         /\ futures' = futures \ D
         /\ progress_data' =
              [k \in DOMAIN progress_data |->
                 IF \E j \in D : thread_id(j) = k
                   THEN [progress_data[k] EXCEPT !.status = "completed"]
                   ELSE progress_data[k]]
         /\ IF AllCollected(futures \ D)
              THEN mainpc' = "done" /\ exit_code' = 0
              ELSE UNCHANGED <<mainpc, exit_code>>
  /\ UNCHANGED <<envVars, pool_size, stderr_pipe, runVars, discVars, lockVars,
                 output_files, fsVars,
                 files_to_process, work_queue, worker, proc, outcome,
                 success_count, fail_count, dispatched, cur>>

\* ---------------------------------------------------------------- cpu2
\* process_videos: the listing (no preflight check); "no MP4 videos" returns.
Cpu2_process_videos ==
  /\ variant = "cpu2"
  /\ mainpc = "start"
  /\ files_to_process' = listdir(cwd_files)
  /\ IF cwd_files = {}
       THEN mainpc' = "done" /\ exit_code' = 0
       ELSE mainpc' = "submit" /\ UNCHANGED exit_code
  /\ UNCHANGED <<envVars, auxVars, fsVars, futures, work_queue, worker, proc, outcome, progress_data, tallyVars, dispatched, collected, cur>>

\* process_videos: Pool(processes=cpu_count()) and imap_unordered over the files.
Cpu2_Pool_imap_unordered ==
  /\ variant = "cpu2"
  /\ mainpc = "submit"
  /\ ExecutorSubmitAll(cpu_count)
  /\ pool_size' = Pool_processes(cpu_count)
  /\ mainpc' = "collect"
  /\ UNCHANGED <<envVars, obsVars, runVars, discVars, lockVars, output_files, fsVars, exit_code, files_to_process, proc, outcome, progress_data, tallyVars, collected, cur>>

\* convert_to_720p_cpu: subprocess.run starts ffmpeg; a launch error is no
\* CalledProcessError and leaves the task function as an exception.
Cpu2_convert_run(w) ==
  /\ variant = "cpu2"
  /\ worker[w].pc = "start"
  /\ \E ok \in LaunchResults :
       IF ok
         THEN /\ proc' = [proc EXCEPT ![worker[w].job] = "running"]
              /\ worker' = [worker EXCEPT ![w].pc = "wait"]
              /\ UNCHANGED <<outcome, work_queue, dispatched>>
         ELSE /\ ReturnOutcome(w, Raised("spawn"))
              /\ UNCHANGED proc
  /\ UNCHANGED <<envVars, auxVars, fsVars, mainpc, exit_code, files_to_process, futures,
                 progress_data, tallyVars, collected, cur>>

\* convert_to_720p_cpu: (.., True) on status 0, (.., False, stderr) otherwise.
Cpu2_convert_done(w) ==
  /\ variant = "cpu2"
  /\ worker[w].pc = "wait"
  /\ Exited(worker[w].job)
  /\ ReturnOutcome(w, IF proc[worker[w].job] = "exit0" THEN Success ELSE Failure("engine"))
  /\ UNCHANGED <<envVars, auxVars, fsVars, mainpc, exit_code, files_to_process, futures,
                 proc, progress_data, tallyVars, collected, cur>>

\* An exception leaves process_videos: Pool.__exit__ terminates the workers and
\* drops the tasks not yet taken; the script ends with a traceback.
Cpu2_abort ==
  /\ mainpc' = "crashed"
  /\ exit_code' = 1
  /\ worker' = [w \in Workers |-> Idle]
  /\ work_queue' = <<>>

\* process_videos: one turn of "for result in results": the task's exception is
\* raised again here; a success moves the original into done (shutil.move, whose
\* error is not caught); a failure is printed.
Cpu2_main_result ==
  /\ variant = "cpu2"
  /\ mainpc = "collect"
  /\ \E j \in DoneFutures :
       /\ futures' = futures \ {j}
       /\ collected' = [collected EXCEPT ![j] = @ + 1]
       /\ IF outcome[j].state = "raised" \/ (outcome[j].state = "Success" /\ ~done_writable)
            THEN Cpu2_abort /\ UNCHANGED fsVars
            ELSE /\ IF outcome[j].state = "Success"
                      THEN os_rename(j)
                      ELSE UNCHANGED fsVars
                 /\ IF AllCollected(futures \ {j})
                      THEN mainpc' = "done" /\ exit_code' = 0
                      ELSE UNCHANGED <<mainpc, exit_code>>
                 /\ UNCHANGED <<worker, work_queue>>
  /\ UNCHANGED <<envVars, auxVars, files_to_process, proc, outcome, progress_data,
                 tallyVars, dispatched, cur>>

\* ---------------------------------------------------------------- nvidia, h265
\* process_folder: the glob (no preflight check); "no videos" returns.
Seq_process_folder(v) ==
  /\ variant = v
  /\ mainpc = "start"
  /\ files_to_process' = listdir(cwd_files)
  /\ IF cwd_files = {}
       THEN mainpc' = "done" /\ exit_code' = 0 /\ UNCHANGED cur
       ELSE mainpc' = "loop" /\ cur' = 1 /\ UNCHANGED exit_code
  /\ UNCHANGED <<envVars, auxVars, fsVars, futures, work_queue, worker, proc, outcome, progress_data, tallyVars, dispatched, collected>>

\* The for-loop moves on to the next video, or ends: process_folder returns.
Seq_next_video ==
  IF cur = total_files
    THEN mainpc' = "done" /\ exit_code' = 0 /\ UNCHANGED cur
    ELSE cur' = cur + 1 /\ UNCHANGED <<mainpc, exit_code>>

\* nvidia: output_folder / f"720p_{video.name}"
Nv_output_file(nm) == [stem |-> nm.stem, suffix |-> nm.suffix]

\* h265: output_folder / f"720p_{video.stem}.mp4"
H265_output_file(nm) == [stem |-> nm.stem, suffix |-> ".mp4"]

\* The output path process_folder passes to convert_video for video j.
output_file(j) ==
  IF variant = "h265" THEN H265_output_file(names[j]) ELSE Nv_output_file(names[j])

\* convert_video: subprocess.run starts ffmpeg; a launch error is no
\* CalledProcessError: it leaves convert_video and process_folder (traceback).
\* ffmpeg runs with -y: it opens the output path for writing whether or not a
\* file is there, and from then on the path holds what this engine writes.
Seq_convert_video_run(v) ==
  LET j == files_to_process[cur]
  IN  /\ variant = v
      /\ mainpc = "loop"
      /\ proc[j] = "none"
      /\ \E ok \in LaunchResults :
           IF ok
             THEN /\ proc' = [proc EXCEPT ![j] = "running"]
                  /\ output_files' = Put(output_files, output_file(j), j)
                  /\ UNCHANGED <<outcome, mainpc, exit_code>>
             ELSE /\ outcome' = [outcome EXCEPT ![j] = Raised("spawn")]
                  /\ mainpc' = "crashed"
                  /\ exit_code' = 1
                  /\ UNCHANGED <<proc, output_files>>
      /\ UNCHANGED <<envVars, pool_size, obsVars, runVars, discVars, lockVars, fsVars,
                     files_to_process, futures, work_queue, worker,
                     progress_data, tallyVars, dispatched, collected, cur>>

\* convert_video returns True on status 0, False otherwise; process_folder
\* renames the original of a converted video into done (an error of the rename
\* is not caught) and goes on with the next video.
Seq_convert_video_done(v) ==
  LET j == files_to_process[cur]
  IN  /\ variant = v
      /\ mainpc = "loop"
      /\ Exited(j)
      /\ IF proc[j] = "exit0"
           THEN /\ outcome' = [outcome EXCEPT ![j] = Success]
                /\ IF done_writable
                     THEN os_rename(j) /\ Seq_next_video
                     ELSE /\ mainpc' = "crashed"
                          /\ exit_code' = 1
                          /\ UNCHANGED <<fsVars, cur>>
           ELSE /\ outcome' = [outcome EXCEPT ![j] = Failure("engine")]
                /\ Seq_next_video
                /\ UNCHANGED fsVars
      /\ UNCHANGED <<envVars, auxVars, files_to_process, futures, work_queue, worker, proc,
                     progress_data, tallyVars, dispatched, collected>>

Nv_process_folder      == Seq_process_folder("nvidia")
Nv_convert_video_run   == Seq_convert_video_run("nvidia")
Nv_convert_video_done  == Seq_convert_video_done("nvidia")

H265_process_folder     == Seq_process_folder("h265")
H265_convert_video_run  == Seq_convert_video_run("h265")
H265_convert_video_done == Seq_convert_video_done("h265")

\* ---------------------------------------------------------------- Next
Next ==
  \/ Preflight
  \/ Discover
  \/ Submit
  \/ \E j \in Files : EngineExit(j)
  \/ \E w \in Workers : Base_make_720p_run(w)
  \/ \E w \in Workers : Base_make_720p_done(w)
  \/ Base_main_as_completed
  \/ \E w \in Workers : Evo_make_720p_Popen(w)
  \/ \E w \in Workers : Evo_make_720p_readline(w)
  \/ \E w \in Workers : Evo_make_720p_eof(w)
  \/ Evo_main_loop
  \/ \E w \in Workers : Evo2_make_720p_Popen(w)
  \/ \E w \in Workers : Evo2_make_720p_readline(w)
  \/ \E w \in Workers : Evo2_make_720p_eof(w)
  \/ Evo2_main_loop
  \/ Evo2_main_exit
  \/ \E w \in Workers : Proc_make_720p_Popen(w)
  \/ \E w \in Workers : Proc_make_720p_poll(w)
  \/ \E w \in Workers : Proc_make_720p_final_progress(w)
  \/ \E w \in Workers : Proc_make_720p_final_status(w)
  \/ \E w \in Workers : Proc_make_720p_return(w)
  \/ Proc_main_loop
  \/ Cpu2_process_videos
  \/ Cpu2_Pool_imap_unordered
  \/ \E w \in Workers : Cpu2_convert_run(w)
  \/ \E w \in Workers : Cpu2_convert_done(w)
  \/ Cpu2_main_result
  \/ Nv_process_folder
  \/ Nv_convert_video_run
  \/ Nv_convert_video_done
  \/ H265_process_folder
  \/ H265_convert_video_run
  \/ H265_convert_video_done

Spec == Init /\ [][Next]_vars

\* ---------------------------------------------------------------- evo, with a
\* hanging engine and a signal
\* A signal reaches the run while main() is in its collection loop.  The
\* script installs no handler.  SIGTERM ends the Python process at once: its
\* threads are gone, nothing more is printed.  SIGINT raises KeyboardInterrupt
\* in main's thread: it leaves the loop, and the with-block's __exit__ waits
\* for the pool.  The signal reaches the ffmpeg children only when it was sent
\* to the whole process group.
Evo_signal ==
  /\ variant = "evo"
  /\ mainpc = "collect"
  /\ signal = NoSignal
  /\ \E sig \in {"SIGINT", "SIGTERM"}, g \in BOOLEAN :
       /\ signal' = [sig |-> sig, group |-> g,
                     hung |-> {j \in Files : proc[j] = "hung"}]
       /\ proc' = IF g THEN [j \in Files |-> Signalled(proc[j])] ELSE proc
       /\ IF sig = "SIGTERM"
            THEN /\ mainpc' = "killed"
                 /\ exit_code' = 143
                 /\ worker' = [w \in Workers |-> Idle]
                 /\ work_queue' = <<>>
            ELSE /\ mainpc' = "interrupted"
                 /\ UNCHANGED <<exit_code, worker, work_queue>>
  /\ UNCHANGED <<envVars, pool_size, obsVars, rerun, discVars, lockVars,
                 output_files, fsVars,
                 files_to_process, futures, outcome, progress_data, tallyVars,
                 dispatched, collected, cur>>

\* main(): the executor's __exit__ has waited until the pool ran every queued
\* task; KeyboardInterrupt leaves main() and ends the script with a traceback.
Evo_KeyboardInterrupt ==
  /\ variant = "evo"
  /\ mainpc = "interrupted"
  /\ InFlight = {}
  /\ work_queue = <<>>
  /\ mainpc' = "crashed"
  /\ exit_code' = 130
  /\ UNCHANGED <<envVars, auxVars, fsVars, files_to_process, futures, work_queue,
                 worker, proc, outcome, progress_data, tallyVars, dispatched,
                 collected, cur>>

CancelInit == Init /\ variant = "evo"

CancelNext ==
  \/ Preflight
  \/ Discover
  \/ Submit
  \/ \E j \in Files : EngineExit(j)
  \/ \E j \in Files : EngineHang(j)
  \/ \E w \in Workers : Evo_make_720p_Popen(w)
  \/ \E w \in Workers : Evo_make_720p_readline(w)
  \/ \E w \in Workers : Evo_make_720p_eof(w)
  \/ Evo_main_loop
  \/ Evo_signal
  \/ Evo_KeyboardInterrupt

CancelSpec == CancelInit /\ [][CancelNext]_vars

\* ---------------------------------------------------------------- process, with
\* the engine's writes to the stderr pipe
ProcInit == Init /\ variant = "process"

ProcNext ==
  \/ Preflight
  \/ Discover
  \/ Submit
  \/ \E j \in Files : EngineWrite(j)
  \/ \E j \in Files : EngineExit(j)
  \/ \E w \in Workers : Proc_make_720p_Popen(w)
  \/ \E w \in Workers : Proc_make_720p_poll(w)
  \/ \E w \in Workers : Proc_make_720p_final_progress(w)
  \/ \E w \in Workers : Proc_make_720p_final_status(w)
  \/ \E w \in Workers : Proc_make_720p_return(w)
  \/ Proc_main_loop

ProcSpec == ProcInit /\ [][ProcNext]_vars

\* ---------------------------------------------------------------- the renderer's pass
\* draw_progress_bars builds active_threads with a dict comprehension over
\* progress_data.items() in main's thread, without progress_lock; the pool
\* threads run between two steps of the iteration.  The dict iterator remembers
\* the size of the dict when the iteration began and raises RuntimeError
\* ("dictionary changed size during iteration") from its next step when the
\* size is another one.  Proc_main_loop is the turn whose pass no pool thread
\* interleaves with; the actions below are a pass that pool threads do
\* interleave with, in a turn whose wait() timed out.  Only a pass over a dict
\* that holds an entry is split: it evaluates v.get('status') for the entry,
\* and the interpreter switches threads there.
Proc_draw_begin ==
  /\ variant = "process"
  /\ mainpc = "collect"
  /\ DOMAIN progress_data # {}
  /\ draw_used' = Cardinality(DOMAIN progress_data)
  /\ mainpc' = "drawing"
  /\ UNCHANGED <<envVars, pool_size, obsVars, runVars, discVars, progress_lock,
                 output_files, fsVars, exit_code, files_to_process, futures,
                 work_queue, worker, proc, outcome, progress_data, tallyVars,
                 dispatched, collected, cur>>

\* The iteration reaches its end: the dict has the size it began with.
Proc_draw_end ==
  /\ variant = "process"
  /\ mainpc = "drawing"
  /\ Cardinality(DOMAIN progress_data) = draw_used
  /\ active_threads' = draw_progress_bars(progress_data)
  /\ draw_used' = -1
  /\ mainpc' = "collect"
  /\ UNCHANGED <<envVars, pool_size, stderr_pipe, runVars, discVars, progress_lock,
                 output_files, fsVars, exit_code, files_to_process, futures,
                 work_queue, worker, proc, outcome, progress_data, tallyVars,
                 dispatched, collected, cur>>

\* The next step of the iteration finds another size: RuntimeError leaves
\* draw_progress_bars and the while loop of main (nothing catches it).
Proc_draw_RuntimeError ==
  /\ variant = "process"
  /\ mainpc = "drawing"
  /\ Cardinality(DOMAIN progress_data) # draw_used
  /\ draw_used' = -1
  /\ mainpc' = "raising"
  /\ UNCHANGED <<envVars, pool_size, obsVars, runVars, discVars, progress_lock,
                 output_files, fsVars, exit_code, files_to_process, futures,
                 work_queue, worker, proc, outcome, progress_data, tallyVars,
                 dispatched, collected, cur>>

\* The executor's __exit__ has waited until the pool ran every queued job; the
\* exception leaves main: traceback, exit status 1, no final status lines.
Proc_main_exit ==
  /\ variant = "process"
  /\ mainpc = "raising"
  /\ InFlight = {}
  /\ work_queue = <<>>
  /\ mainpc' = "crashed"
  /\ exit_code' = 1
  /\ UNCHANGED <<envVars, auxVars, fsVars, files_to_process, futures, work_queue, worker,
                 proc, outcome, progress_data, tallyVars, dispatched,
                 collected, cur>>

DrawInit == Init /\ variant = "process"

DrawNext ==
  \/ Preflight
  \/ Discover
  \/ Submit
  \/ \E j \in Files : EngineExit(j)
  \/ \E w \in Workers : Proc_make_720p_Popen(w)
  \/ \E w \in Workers : Proc_make_720p_poll(w)
  \/ \E w \in Workers : Proc_make_720p_final_progress(w)
  \/ \E w \in Workers : Proc_make_720p_final_status(w)
  \/ \E w \in Workers : Proc_make_720p_return(w)
  \/ Proc_main_loop
  \/ Proc_draw_begin
  \/ Proc_draw_end
  \/ Proc_draw_RuntimeError
  \/ Proc_main_exit

DrawSpec == DrawInit /\ [][DrawNext]_vars

\* ---------------------------------------------------------------- file names
\* The h265 script over a directory whose video files have any distinct names:
\* two of them may share the stem and differ in the suffix.
H265Init ==
  /\ InitRun({"h265"}, MaxFiles)
  /\ names \in {f \in [Files -> Names] : \A i, j \in Files : i # j => f[i] # f[j]}

H265Next ==
  \/ H265_process_folder
  \/ \E j \in Files : EngineExit(j)
  \/ H265_convert_video_run
  \/ H265_convert_video_done

H265Spec == H265Init /\ [][H265Next]_vars

\* ---------------------------------------------------------------- a second run
\* The script has ended and every child process of it is gone; the same
\* script is started again over the same directory.  The new process starts
\* with fresh memory; the directory is as the first run left it.
Rerun ==
  /\ MainEnded
  /\ rerun = "first"
  /\ \A j \in Files : proc[j] # "running"
  /\ rerun' = IF files_to_process # <<>> /\ cwd_files = {}
                THEN "after_all_done" ELSE "after_leftover"
  /\ mainpc' = "start"
  /\ exit_code' = -1
  /\ files_to_process' = <<>>
  /\ futures' = {}
  /\ work_queue' = <<>>
  /\ worker' = [w \in Workers |-> Idle]
  /\ proc' = [j \in Files |-> "none"]
  /\ outcome' = [j \in Files |-> NoOutcome]
  /\ progress_data' = <<>>
  /\ processed_count' = 0
  /\ success_count' = 0
  /\ fail_count' = 0
  /\ dispatched' = [j \in Files |-> 0]
  /\ collected' = [j \in Files |-> 0]
  /\ cur' = 0
  /\ pool_size' = 0
  /\ active_threads' = <<>>
  /\ stderr_pipe' = [j \in Files |-> 0]
  /\ progress_lock' = 0
  /\ draw_used' = -1
  /\ UNCHANGED <<envVars, fsVars, output_files, discVars, signal>>

RerunNext == Next \/ Rerun

RerunSpec == Init /\ [][RerunNext]_vars

\* ---------------------------------------------------------------- discovery
\* The listing expressions of the scripts as functions of the directory.  An
\* entry of the input root is described by what the expressions look at: is it
\* a regular file or a directory, does its name begin with a dot, and its
\* suffix as written ("" for a name without a dot, like 720p and done).
Suffixes == {".mp4", ".MP4", ".mov", ".txt", ""}
Entries  == [kind : {"file", "dir"}, hidden : BOOLEAN, suffix : Suffixes]

\* The subdirectories every script creates before it lists the root.
OwnSubdirs == {[kind |-> "dir", hidden |-> FALSE, suffix |-> ""]}

\* The directories discovery is applied to: up to MaxEntries entries beside
\* the script's own subdirectories.
Directories ==
  {Range(q) \cup OwnSubdirs : q \in UNION {[1..n -> Entries] : n \in 0..MaxEntries}}

\* str.lower() on a suffix
lower(sfx) == IF sfx = ".MP4" THEN ".mp4" ELSE sfx

\* The extensions tuple of the hg_* scripts and the suffix tuple of h265.
extensions == {".mp4", ".wmv", ".mov", ".mkv"}

\* Path.glob matches case-sensitively on posix and case-insensitively on nt.
glob_matches(sfx, pattern) ==
  IF platform = "nt" THEN lower(sfx) = pattern ELSE sfx = pattern

\* hg_*: [f for f in os.listdir('.') if os.path.isfile(f) and
\*        f.lower().endswith(extensions)]
Hg_files_to_process(D) ==
  {e \in D : e.kind = "file" /\ lower(e.suffix) \in extensions}

\* cpu2: [.. for f in os.listdir(input_folder)
\*        if f.lower().endswith('.mp4') and not f.startswith('.')]
Cpu2_files_to_process(D) ==
  {e \in D : lower(e.suffix) = ".mp4" /\ ~e.hidden}

\* nvidia: [f for f in input_folder.glob('*.mp4') if not f.name.startswith('.')]
Nv_video_files(D) ==
  {e \in D : glob_matches(e.suffix, ".mp4") /\ ~e.hidden}

\* h265: [f for f in input_folder.glob('*.*')
\*        if f.suffix.lower() in (..) and not f.name.startswith('.')]
H265_video_files(D) ==
  {e \in D : e.suffix # "" /\ lower(e.suffix) \in extensions /\ ~e.hidden}

DiscInit ==
  /\ variant \in Variants
  /\ ffmpegOk = TRUE
  /\ done_writable = TRUE
  /\ cpu_count = 1
  /\ names = DistinctStems
  /\ cwd_files = {}
  /\ done_files = {}
  /\ output_files = <<>>
  /\ InitMemory
  /\ platform \in {"posix", "nt"}
  /\ dir_entries \in Directories
  /\ video_files = {}

\* The listing expression of the running script is evaluated.
Listing(result) ==
  /\ mainpc = "start"
  /\ video_files' = result
  /\ mainpc' = "listed"
  /\ UNCHANGED <<envVars, fsVars, exit_code, files_to_process, futures,
                 work_queue, worker, proc, outcome, progress_data, tallyVars,
                 dispatched, collected, cur, pool_size, obsVars, runVars,
                 lockVars, output_files, platform, dir_entries>>

Hg_discover ==
  /\ variant \in HgVariants
  /\ Listing(Hg_files_to_process(dir_entries))

Cpu2_discover ==
  /\ variant = "cpu2"
  /\ Listing(Cpu2_files_to_process(dir_entries))

Nv_discover ==
  /\ variant = "nvidia"
  /\ Listing(Nv_video_files(dir_entries))

H265_discover ==
  /\ variant = "h265"
  /\ Listing(H265_video_files(dir_entries))

DiscNext ==
  \/ Hg_discover
  \/ Cpu2_discover
  \/ Nv_discover
  \/ H265_discover

DiscSpec == DiscInit /\ [][DiscNext]_vars

TypeOK ==
  /\ variant \in Variants
  /\ cwd_files \subseteq Files
  /\ done_files \subseteq Files
  /\ exit_code \in {-1, 0, 1, 130, 143}
  /\ \A w \in Workers : worker[w].job \in {0} \cup Files
  /\ progress_lock \in {0} \cup Workers

\* ================================================================ claims
Jobs == Range(files_to_process)

\* C1: hg_convert_movie_to_720p_evo.py: no job is collected twice, and when the
\* collection loop has exited every submitted job has been collected exactly
\* once and processed_count = success_count + fail_count = N.
C1_EvoTallyComplete ==
  variant = "evo" =>
    /\ \A j \in Files : collected[j] <= 1
    /\ (mainpc = "done" /\ total_files >= 1) =>
         /\ \A j \in Jobs : collected[j] = 1
         /\ processed_count = total_files
         /\ success_count + fail_count = total_files

C1_Witness ==
  /\ variant = "evo"
  /\ mainpc = "done"
  /\ total_files = 2
  /\ cpu_count = 2
  /\ success_count = 1
  /\ fail_count = 1

\* C2 (as claimed): hg_convert_movie_to_720p_evo2.py: a run that discovered jobs
\* ends with the final summary: main() returns normally (exit code 0) with
\* success_count + fail_count = total_files, whether jobs succeeded or failed.
C2_Evo2FinalSummary ==
  (variant = "evo2" /\ total_files >= 1 /\ MainEnded) =>
    /\ mainpc = "done"
    /\ exit_code = 0
    /\ success_count + fail_count = total_files

\* C3: in every variant, in every state, each job's source file is in exactly
\* one of the original location and the done directory, and it is in done only
\* if the job's engine process has exited with status 0.
C3_OneLocation ==
  \A j \in Jobs :
    /\ (j \in cwd_files) # (j \in done_files)
    /\ j \in done_files => proc[j] = "exit0"

C3_Witness ==
  /\ 1 \in done_files
  /\ 2 \in cwd_files
  /\ proc[2] = "exit1"
  /\ Terminal(2)

\* C4: base and process variants, when the rename into done can complete: a
\* job whose engine exits 0 ends as Success with its source in done and not in
\* the original location; a job whose engine exits nonzero ends as Failure
\* with its source still in the original location.
C4_ExitStatusDecides ==
  (variant \in {"base", "process"} /\ done_writable) =>
    \A j \in Jobs : Terminal(j) =>
      /\ Exited(j)
      /\ proc[j] = "exit0" =>
           outcome[j].state = "Success" /\ j \in done_files /\ j \notin cwd_files
      /\ proc[j] = "exit1" =>
           outcome[j].state = "Failure" /\ j \in cwd_files /\ j \notin done_files

C4_Witness ==
  /\ variant = "process"
  /\ done_writable
  /\ Terminal(1) /\ proc[1] = "exit0"
  /\ Terminal(2) /\ proc[2] = "exit1"

\* C5 (as claimed): evo and evo2: a malformed out_time_ms line never makes a
\* job fail: a task returns only after its engine has exited, and (the rename
\* being possible) its outcome is Success exactly if the engine exited with 0.
C5_MalformedProgressIgnored ==
  (variant \in {"evo", "evo2"} /\ done_writable) =>
    \A j \in Jobs : Terminal(j) =>
      /\ Exited(j)
      /\ (outcome[j].state = "Success") <=> (proc[j] = "exit0")

C8_RunEndsAfterAllJobs ==
  (variant \in {"base", "evo"} /\ mainpc = "done") =>
    \A j \in Jobs : Terminal(j) /\ dispatched[j] = 1

C8_Witness ==
  /\ variant = "base"
  /\ mainpc = "done"
  /\ outcome[1] = Failure("engine")
  /\ outcome[2] = Success

\* C9 (as claimed): cpu2 and nvidia: a launch error or a failed move is
\* confined to its job: the run goes on to its normal end and every job has a
\* recorded Success or Failure.
C9_ErrorsConfined ==
  (variant \in {"cpu2", "nvidia"} /\ total_files >= 1 /\ MainEnded) =>
    /\ mainpc = "done"
    /\ \A j \in Jobs : outcome[j].state \in {"Success", "Failure"}

C11_MoveFailureStaysSuccess ==
  (variant \in ThreadPoolVariants /\ ~done_writable) =>
    \A j \in Jobs :
      (Terminal(j) /\ proc[j] = "exit0" /\ outcome[j].reason # "parse") =>
        outcome[j].state = "Success"

\* The progress fraction an entry of the progress map holds, in thousandths
\* (-1: the entry has no progress field).
StoredProgress(k) ==
  IF variant = "evo" THEN progress_data[k] ELSE progress_data[k].progress

\* C12 (as claimed): evo, evo2, process: every progress fraction stored in the
\* progress map is within [0, 1].
C12_ProgressWithinUnit ==
  variant \in {"evo", "evo2", "process"} =>
    \A k \in DOMAIN progress_data :
      StoredProgress(k) # -1 => StoredProgress(k) \in 0..1000

\* C14 (as claimed): evo and evo2: the progress map holds an entry for a key
\* only while a job that uses the key has been started and not yet collected.
C14_EntriesOnlyInFlight ==
  variant \in {"evo", "evo2"} =>
    \A k \in DOMAIN progress_data :
      \E j \in Jobs : thread_id(j) = k /\ dispatched[j] >= 1 /\ collected[j] = 0

\* C17 (as claimed): parallel variants: the pool never holds more worker
\* threads/processes than jobs were discovered.
C17_PoolClampedToJobs ==
  variant \in ThreadPoolVariants \cup {"cpu2"} => pool_size <= total_files

\* C13: process: once make_720p has returned a job's outcome, the job's entry
\* does not read 'running', so no draw_progress_bars from then on lists it.
C13_ReturnedNeverActive ==
  variant = "process" =>
    \A j \in Jobs :
      Terminal(j) => thread_id(j) \notin DOMAIN draw_progress_bars(progress_data)

\* The job was drawn as a running bar, then returned Success; its entry reads 'done'.
C13_Witness ==
  /\ variant = "process"
  /\ outcome[1] = Success
  /\ 0 \in DOMAIN active_threads
  /\ progress_data[0].filename = 1
  /\ progress_data[0].status = "done"

\* C19 (as claimed): process: draw_progress_bars never prints an entry as
\* running whose progress is already the final 1.0.
C19_NoTornEntryDrawn ==
  variant = "process" =>
    \A k \in DOMAIN active_threads : active_threads[k] # 1000

\* C15: a second run of the same script over a directory in which the first
\* run moved every original to done discovers no job, starts no worker and no
\* engine, leaves every file where it is and, when it ends, ends at main's
\* normal return with exit code 0.
C15_SecondRunIdle ==
  rerun = "after_all_done" =>
    /\ files_to_process = <<>>
    /\ cwd_files = {} /\ done_files # {}
    /\ \A j \in Files : proc[j] = "none" /\ dispatched[j] = 0 /\ outcome[j] = NoOutcome
    /\ pool_size = 0
    /\ mainpc \in {"start", "discover", "done"}
    /\ mainpc = "done" => exit_code = 0

C15_Witness ==
  /\ rerun = "after_all_done"
  /\ variant = "h265"
  /\ done_files = {1, 2}
  /\ mainpc = "done"
  /\ exit_code = 0

\* The extensions the variant documents as its recognized set.
Recognized == IF variant \in HgVariants \cup {"h265"} THEN extensions ELSE {".mp4"}

\* C16 (as claimed): in every variant discovery returns exactly the regular
\* files directly under the root whose name does not begin with a dot and whose
\* extension, compared case-insensitively, is in the variant's recognized set.
C16_DiscoveryExact ==
  mainpc = "listed" =>
    video_files = {e \in dir_entries :
                     e.kind = "file" /\ ~e.hidden /\ lower(e.suffix) \in Recognized}

\* C18 (as claimed): process: the output the engine writes to its stderr pipe
\* is consumed while it runs, so no engine is ever blocked on the full pipe.
C18_EngineNeverBlocked ==
  variant = "process" => \A j \in Files : ~Blocked(j)

\* C20 (as claimed): a job's engine hangs and a cancellation signal reaches the
\* run: the run ends with its final summary, the hung engine is terminated,
\* its job is a Failure with the source in the original location, and the
\* tallies cover every job.
C20_CancelledRunSummarises ==
  (signal.hung # {} /\ MainEnded) =>
    /\ mainpc = "done"
    /\ success_count + fail_count = total_files
    /\ \A j \in signal.hung :
         /\ proc[j] \notin {"running", "hung"}
         /\ outcome[j].state = "Failure"
         /\ j \in cwd_files

\* The engine child processes that are alive.
RunningEngines == {j \in Files : proc[j] \in {"running", "hung"}}

\* C21 (as claimed): evo: a job's outcome is returned only after the job's
\* engine has exited, and never more than num_workers engines are alive.
C21_EnginesWithinWorkers ==
  variant = "evo" =>
    /\ \A j \in Jobs : Terminal(j) => j \notin RunningEngines
    /\ Cardinality(RunningEngines) <= num_workers

\* C23 (as claimed): evo, evo2, process: every key of the progress map lies in
\* [0, num_workers), so the map holds at most num_workers entries.
C23_KeysWithinWorkers ==
  variant \in {"evo", "evo2", "process"} =>
    /\ \A k \in DOMAIN progress_data : 0 <= k /\ k < num_workers
    /\ Cardinality(DOMAIN progress_data) <= num_workers

\* ---------------------------------------------------------------- one variant, more files
\* The base script over a directory of up to MaxPoolFiles video files: the work
\* queue of the pool holds more than one item.
BaseInit ==
  /\ InitRun({"base"}, MaxPoolFiles)
  /\ names = DistinctStems

BaseNext ==
  \/ Preflight
  \/ Discover
  \/ Submit
  \/ \E j \in Files : EngineExit(j)
  \/ \E w \in Workers : Base_make_720p_run(w)
  \/ \E w \in Workers : Base_make_720p_done(w)
  \/ Base_main_as_completed

BaseSpec == BaseInit /\ [][BaseNext]_vars

\* The evo script over a directory of up to MaxPoolFiles video files: more jobs
\* than twice the pool threads.
EvoInit ==
  /\ InitRun({"evo"}, MaxPoolFiles)
  /\ names = DistinctStems

EvoNext ==
  \/ Preflight
  \/ Discover
  \/ Submit
  \/ \E j \in Files : EngineExit(j)
  \/ \E w \in Workers : Evo_make_720p_Popen(w)
  \/ \E w \in Workers : Evo_make_720p_readline(w)
  \/ \E w \in Workers : Evo_make_720p_eof(w)
  \/ Evo_main_loop

EvoSpec == EvoInit /\ [][EvoNext]_vars

\* C25: thread-pool variants: jobs are handed to the pool threads in discovery
\* order: a job is never started while a job at an earlier position of the
\* discovered list has not been started.
C25_StartedInDiscoveryOrder ==
  variant \in ThreadPoolVariants =>
    \A p, q \in 1..total_files :
      (p < q /\ dispatched[files_to_process[q]] >= 1)
        => dispatched[files_to_process[p]] >= 1

\* C25 witness: one pool thread, three jobs: the first job has ended, the
\* second was taken from the queue, the third still waits in it.
C25_Witness ==
  /\ variant = "base"
  /\ total_files = 3
  /\ Terminal(files_to_process[1])
  /\ dispatched[files_to_process[2]] = 1
  /\ work_queue = <<files_to_process[3]>>

\* The pool threads that read the output of their job's engine and write the
\* progress they parse under key k.
Writers(k) == {w \in InFlight : worker[w].pc = "read" /\ thread_id(worker[w].job) = k}

\* C24 (as claimed): evo: every key of the progress map has at most one job in
\* flight that writes under it (checked for the runs in which every progress
\* line parsed).
C24_OneWriterPerKey ==
  (variant = "evo" /\ \A j \in Files : outcome[j].reason # "parse")
    => \A k \in 0..(MaxCpu - 1) : Cardinality(Writers(k)) <= 1

\* Pool thread w waits on the engine of its job: it sits in readline (evo,
\* evo2) or in the poll loop with its sleep (process).
AwaitsEngine(w) ==
  /\ worker[w].pc \in {"read", "poll"}
  /\ proc[worker[w].job] \in {"running", "hung"}

C26_DrawCompletes ==
  variant = "process" => mainpc \notin {"raising", "crashed"}

\* The transcode of video j is in the output directory, under j's output path.
OutputIntact(j) ==
  /\ output_file(j) \in DOMAIN output_files
  /\ output_files[output_file(j)] = j

\* C27 (as claimed): h265: distinct discovered videos have distinct output
\* paths, and the output of a converted video whose original was moved to
\* done is not overwritten by the engine of another such video.
C27_OutputsDistinct ==
  variant = "h265" =>
    \A i, j \in Jobs :
      (i # j /\ outcome[i] = Success /\ outcome[j] = Success
             /\ i \in done_files /\ j \in done_files)
        => (output_file(i) # output_file(j) /\ OutputIntact(i) /\ OutputIntact(j))

====
